---- MODULE Spec2Model ----
(***************************************************************************)
(* State-machine model of strgen (src/src/strgen/mod.rs): the three string *)
(* generators LettterSequence, RandomWord and CoupledWords, the generator  *)
(* selector `stringer`, the driver `run_generator` and `Config::new`.      *)
(*                                                                         *)
(* A Rust String is modelled as a sequence of one-character strings, so    *)
(* that split, trim, format! and parse are computed character by           *)
(* character.  The collaborators whose code is outside mod.rs (RNGWheel,   *)
(* RNG, read_lines, Languages, Modes, GermanNounList) are modelled from    *)
(* the specification text and marked as such.                              *)
(***************************************************************************)
EXTENDS Integers, Sequences, FiniteSets, TLC

VARIABLES
    pc,          \* position of the driver (or "unit" for a stand-alone generator)
    conf,        \* the Config built by Config::new
    sg,          \* the generator owned by the driver
    i,           \* the loop variable _i of run_generator
    output,      \* the file strings.textout: [exists, bytes]
    console,     \* the bytes printed on the console
    panic,       \* "none", or the message of the panic / error that ended the run
    out0,        \* history: strings.textout as it was before the run
    getCalls,    \* history: number of invocations of get()
    rets,        \* history: the strings get() has returned, in order
    createCalls, \* history: number of invocations of File::create
    reads,       \* history: the files read so far: <<[path, file], ...>>
    lastGet      \* history: what the last get() drew

vars == <<pc, conf, sg, i, output, console, panic, out0, getCalls, rets,
          createCalls, reads, lastGet>>

----------------------------------------------------------------------------
(* Bounds of the model.                                                    *)

MaxAmount == 2

MaxSeed == 2

MaxRng == 3

MaxLen == 3

MaxUnitCalls == 2

----------------------------------------------------------------------------
(* Strings.                                                                *)

Whitespace == {" ", "\t", "\n", "\r"}

Digits == <<"0", "1", "2", "3", "4", "5", "6", "7", "8", "9">>

Last(s) == s[Len(s)]

Elems(s) == {s[k] : k \in 1..Len(s)}

RECURSIVE Flatten(_)
Flatten(ss) == IF ss = <<>> THEN <<>> ELSE Head(ss) \o Flatten(Tail(ss))

\* str::trim_start / trim_end / trim
RECURSIVE TrimStart(_)
TrimStart(s) ==
    IF s # <<>> /\ Head(s) \in Whitespace THEN TrimStart(Tail(s)) ELSE s

RECURSIVE TrimEnd(_)
TrimEnd(s) ==
    IF s # <<>> /\ Last(s) \in Whitespace
    THEN TrimEnd(SubSeq(s, 1, Len(s) - 1))
    ELSE s

Trim(s) == TrimEnd(TrimStart(s))

\* str::split(sep) for a one-character separator: n separators give n + 1
\* pieces, empty pieces included ("" gives [""]).
RECURSIVE SplitFrom(_, _, _)
SplitFrom(s, sep, cur) ==
    IF s = <<>> THEN <<cur>>
    ELSE IF Head(s) = sep THEN <<cur>> \o SplitFrom(Tail(s), sep, <<>>)
    ELSE SplitFrom(Tail(s), sep, Append(cur, Head(s)))

Split(s, sep) == SplitFrom(s, sep, <<>>)

\* The text lines of a byte stream: every line is ended by "\n".
RECURSIVE LinesFrom(_, _)
LinesFrom(s, cur) ==
    IF s = <<>> THEN (IF cur = <<>> THEN <<>> ELSE <<cur>>)
    ELSE IF Head(s) = "\n" THEN <<cur>> \o LinesFrom(Tail(s), <<>>)
    ELSE LinesFrom(Tail(s), Append(cur, Head(s)))

Lines(bytes) == LinesFrom(bytes, <<>>)

\* Display of an unsigned integer ("{}" of a u32).
RECURSIVE ToDecimal(_)
ToDecimal(n) ==
    IF n < 10 THEN <<Digits[n + 1]>>
    ELSE Append(ToDecimal(n \div 10), Digits[(n % 10) + 1])

DigitValue(c) == CHOOSE d \in 0..9 : Digits[d + 1] = c

RECURSIVE DigitsValue(_, _)
DigitsValue(s, acc) ==
    IF s = <<>> THEN acc ELSE DigitsValue(Tail(s), acc * 10 + DigitValue(Head(s)))

\* u32::MAX = 4294967295, as decimal digits (TLC's integers are 32-bit signed,
\* so the overflow test of parse is made on the digits).
U32MaxDigits == <<"4", "2", "9", "4", "9", "6", "7", "2", "9", "5">>

RECURSIVE StripZeros(_)
StripZeros(s) == IF s # <<>> /\ Head(s) = "0" THEN StripZeros(Tail(s)) ELSE s

RECURSIVE LexLeq(_, _)
LexLeq(a, b) ==
    IF a = <<>> THEN TRUE
    ELSE IF DigitValue(Head(a)) # DigitValue(Head(b))
    THEN DigitValue(Head(a)) < DigitValue(Head(b))
    ELSE LexLeq(Tail(a), Tail(b))

FitsU32(ds) ==
    LET d == StripZeros(ds) IN
    Len(d) < Len(U32MaxDigits) \/ (Len(d) = Len(U32MaxDigits) /\ LexLeq(d, U32MaxDigits))

\* str::parse::<u32>: an optional "+", then at least one digit, no overflow.
ParseU32(s) ==
    LET body == IF s # <<>> /\ Head(s) = "+" THEN Tail(s) ELSE s IN
    IF body # <<>> /\ (\A k \in 1..Len(body) : body[k] \in Elems(Digits))
                   /\ FitsU32(body)
    THEN [ok |-> TRUE, value |-> DigitsValue(body, 0)]
    ELSE [ok |-> FALSE, value |-> 0]

----------------------------------------------------------------------------
(* Collaborators outside mod.rs, modelled from the specification.          *)

\* Modes: the variants mod.rs matches on; Modes::from resolves an unknown
\* identifier to the default letters mode.
Modes ==
    {"RandomLetters", "RandomLettersFromCustomAlphabet",
     "RandomLettersFromAlphabetFile", "RandomWord", "RandomWordFromListFile",
     "CoupledWordsNouns", "CoupledWordsNames", "CoupledWordsListFiles"}

Modes_from(ident) == IF ident \in Modes THEN ident ELSE "RandomLetters"

\* Language registry: exact-match lookup with a fallback language.
English ==
    [name |-> "English", alphabet |-> <<"a", "b", "c">>,
     abbr |-> <<"e", "n">>, german |-> FALSE]

German ==
    [name |-> "German", alphabet |-> <<"a", "o", "u", "z">>,
     abbr |-> <<"d", "e">>, german |-> TRUE]

FallbackLanguage == English

Languages_from(ident) ==
    IF ident = German.abbr THEN German
    ELSE IF ident = English.abbr THEN English
    ELSE FallbackLanguage

\* RNG Wheel: a finite sequence of `length` pseudo-random values, a function
\* of the seed the instance was created with.
Seeds == 0..MaxSeed

RECURSIVE WheelRun(_, _)
WheelRun(x, n) ==
    IF n = 0 THEN <<>>
    ELSE LET y == (5 * x + 3) % 16 IN <<y>> \o WheelRun(y, n - 1)

RNGWheel(length) == {WheelRun(seed, length) : seed \in Seeds}

\* Scalar RNG: one pseudo-random value per call, reseeded on every call.
RngValues == 0..MaxRng

\* A file is [exists, bytes]; BadByte stands for a byte sequence that is not
\* valid UTF-8.
BadByte == "<FF>"

StripCr(line) ==
    IF line # <<>> /\ Last(line) = "\r" THEN SubSeq(line, 1, Len(line) - 1) ELSE line

\* read_lines: Err for a file that cannot be opened, else one Result per line
\* (the line without its terminator, or Err for a line that is not UTF-8).
read_lines(file) ==
    IF file.exists
    THEN [ok |-> TRUE,
          lines |-> [k \in 1..Len(Lines(file.bytes)) |->
                        LET line == Lines(file.bytes)[k] IN
                        [ok |-> BadByte \notin Elems(line), text |-> StripCr(line)]]]
    ELSE [ok |-> FALSE, lines |-> <<>>]

\* fs::read_to_string: the whole content, or Err when the file cannot be
\* opened or is not UTF-8.
fs_read(file) ==
    IF file.exists /\ BadByte \notin Elems(file.bytes)
    THEN [ok |-> TRUE, contents |-> file.bytes]
    ELSE [ok |-> FALSE, contents |-> <<>>]

\* German noun table: noun -> grammatical class; an unknown noun takes the
\* default class; the compound is adjective + ending + noun, no separator.
GermanNounTable ==
    (<<"H", "o", "f">> :> "m") @@ (<<"K", "u", "h">> :> "f") @@ (<<"E", "i">> :> "n")

DefaultNounClass == "m"

AdjectiveEnding(class) ==
    CASE class = "m" -> <<"e", "r">>
      [] class = "f" -> <<"e">>
      [] OTHER -> <<"e", "s">>

GermanNounList_new == [filled |-> FALSE, nouns |-> {}]

GermanNounList_fill(self) ==
    [filled |-> TRUE, nouns |-> DOMAIN GermanNounTable]

GermanNounList_get_adapted(self, noun, adj) ==
    LET class == IF noun \in self.nouns THEN GermanNounTable[noun]
                 ELSE DefaultNounClass
    IN adj \o AdjectiveEnding(class) \o noun

----------------------------------------------------------------------------
(* Panics and errors.                                                      *)

NoPanic == "none"

RemainderByZero == "attempt to calculate the remainder with a divisor of zero"

IndexOutOfBounds == "index out of bounds"

ReadFailed == "Something went wrong reading the file"

NumberMustBe == "Number must be"

IoError == "io error"

----------------------------------------------------------------------------
(* LettterSequence.                                                        *)

LettterSequence_new(s, length) ==
    [kind |-> "LettterSequence", alphabet |-> s, held_string |-> <<>>,
     length |-> length]

set_alphabet(self, s) == [self EXCEPT !.alphabet = s]

\* The loop of get(): one character pushed per value of the wheel.  A
\* remainder by zero or an index past the alphabet panics.
RECURSIVE PushLetters(_, _, _)
PushLetters(held, alphabet, run) ==
    IF run = <<>> THEN [panic |-> NoPanic, held |-> held]
    ELSE IF Len(alphabet) = 0 THEN [panic |-> RemainderByZero, held |-> held]
    ELSE LET index == Head(run) % Len(alphabet) IN
         IF index >= Len(alphabet) THEN [panic |-> IndexOutOfBounds, held |-> held]
         ELSE PushLetters(Append(held, alphabet[index + 1]), alphabet, Tail(run))

\* Faulty variant of get(): held_string is not reset before the loop.
LettterSequence_get_accumulating(self, run) ==
    LET r == PushLetters(self.held_string, self.alphabet, run) IN
    [panic |-> r.panic, self |-> [self EXCEPT !.held_string = r.held],
     ret |-> r.held]

LettterSequence_get(self, run) ==
    LET r == PushLetters(<<>>, self.alphabet, run) IN
    [panic |-> r.panic, self |-> [self EXCEPT !.held_string = r.held],
     ret |-> r.held]

\* setup: `file` is what fs_read finds at conf.next.
LettterSequence_setup(self, c, file) ==
    CASE c.mode = "RandomLettersFromCustomAlphabet" ->
            [panic |-> NoPanic, self |-> set_alphabet(self, c.next)]
      [] c.mode = "RandomLettersFromAlphabetFile" ->
            IF fs_read(file).ok
            THEN [panic |-> NoPanic,
                  self |-> set_alphabet(self, fs_read(file).contents)]
            ELSE [panic |-> ReadFailed, self |-> self]
      [] c.mode = "RandomLetters" ->
            [panic |-> NoPanic,
             self |-> set_alphabet(self, Languages_from(c.next).alphabet)]
      [] OTHER -> [panic |-> NoPanic, self |-> self]

----------------------------------------------------------------------------
(* RandomWord.                                                             *)

RandomWord_new(list_type, language) ==
    [kind |-> "RandomWord", list |-> <<>>, list_type |-> list_type,
     language |-> language]

add_word(self, s) == [self EXCEPT !.list = Append(@, s)]

is_noun(list_type) == list_type = "Nouns"

get_file_name(self) ==
    LET head == CASE self.list_type = "Nouns" -> <<"n", "o", "u", "n", "s">>
                  [] self.list_type = "Adjectives" ->
                        <<"a", "d", "j", "e", "c", "t", "i", "v", "e", "s">>
                  [] OTHER -> <<"n", "a", "m", "e", "s">>
    IN <<".", "/", "l", "i", "s", "t", "s", "/">> \o head \o <<".">>
         \o self.language.abbr \o <<".", "l", "i", "s", "t">>

FillPath(self, s) == IF s = <<>> THEN get_file_name(self) ELSE s

\* The inner loop of fill: the pieces of one line, in order.
RECURSIVE AddTokens(_, _)
AddTokens(self, chazar) ==
    IF chazar = <<>> THEN self
    ELSE IF Head(chazar) = <<>> THEN AddTokens(self, Tail(chazar))
    ELSE AddTokens(add_word(self, Trim(Head(chazar))), Tail(chazar))

\* The outer loop of fill: the lines of the file, unreadable lines skipped.
RECURSIVE AddLines(_, _)
AddLines(self, lines) ==
    IF lines = <<>> THEN self
    ELSE IF Head(lines).ok
    THEN AddLines(AddTokens(self, Split(Head(lines).text, ",")), Tail(lines))
    ELSE AddLines(self, Tail(lines))

\* fill: `file` is what read_lines finds at FillPath(self, s).
RandomWord_fill(self, s, file) ==
    LET r == read_lines(file) IN
    IF r.ok THEN AddLines(self, r.lines) ELSE self

\* Faulty variant of get(): the value is reduced modulo len + 1.
RandomWord_get_modlen1(self, value) ==
    LET diclen == Len(self.list) IN
    LET index == value % (diclen + 1) IN
    IF index >= diclen THEN [panic |-> IndexOutOfBounds, ret |-> <<>>, index |-> index]
    ELSE [panic |-> NoPanic, ret |-> self.list[index + 1], index |-> index]

\* Faulty variant of get(): an empty list yields the empty string, no panic.
RandomWord_get_lenient(self, value) ==
    LET diclen == Len(self.list) IN
    IF diclen = 0 THEN [panic |-> NoPanic, ret |-> <<>>, index |-> 0]
    ELSE [panic |-> NoPanic, ret |-> self.list[(value % diclen) + 1],
          index |-> value % diclen]

RandomWord_get(self, value) ==
    LET diclen == Len(self.list) IN
    IF diclen = 0 THEN [panic |-> RemainderByZero, ret |-> <<>>, index |-> 0]
    ELSE LET index == value % diclen IN
         IF index >= diclen
         THEN [panic |-> IndexOutOfBounds, ret |-> <<>>, index |-> index]
         ELSE [panic |-> NoPanic, ret |-> self.list[index + 1], index |-> index]

RandomWord_setup(self, c, file) ==
    CASE c.mode = "RandomWord" -> RandomWord_fill(self, <<>>, file)
      [] c.mode = "RandomWordFromListFile" -> RandomWord_fill(self, c.next, file)
      [] OTHER -> RandomWord_fill(self, <<>>, file)

RandomWord_setup_path(self, c) ==
    IF c.mode = "RandomWordFromListFile" THEN FillPath(self, c.next)
    ELSE FillPath(self, <<>>)

----------------------------------------------------------------------------
(* CoupledWords.                                                           *)

CoupledWords_new(second_type, language) ==
    [kind |-> "CoupledWords",
     adjectives |-> RandomWord_new("Adjectives", language),
     second_type |-> second_type,
     language |-> language,
     type_list |-> RandomWord_new(second_type, language)]

Underscored(adj, s2) == adj \o <<"_">> \o s2

\* Faulty variant of get(): adapts for German whatever the second list is.
CoupledWords_get_any_german(self, v1, v2) ==
    LET nounlist == IF self.language.german
                    THEN GermanNounList_fill(GermanNounList_new)
                    ELSE GermanNounList_new
        a == RandomWord_get(self.adjectives, v1)
        b == RandomWord_get(self.type_list, v2)
    IN IF a.panic # NoPanic
       THEN [panic |-> a.panic, ret |-> <<>>, adj |-> <<>>, s2 |-> <<>>,
             filled |-> nounlist.filled]
       ELSE IF b.panic # NoPanic
       THEN [panic |-> b.panic, ret |-> <<>>, adj |-> a.ret, s2 |-> <<>>,
             filled |-> nounlist.filled]
       ELSE [panic |-> NoPanic,
             ret |-> IF self.language.german
                     THEN GermanNounList_get_adapted(nounlist, b.ret, a.ret)
                     ELSE Underscored(a.ret, b.ret),
             adj |-> a.ret, s2 |-> b.ret, filled |-> nounlist.filled]

CoupledWords_get(self, v1, v2) ==
    LET nounlist == IF self.language.german
                    THEN GermanNounList_fill(GermanNounList_new)
                    ELSE GermanNounList_new
        a == RandomWord_get(self.adjectives, v1)
        b == RandomWord_get(self.type_list, v2)
    IN IF a.panic # NoPanic
       THEN [panic |-> a.panic, ret |-> <<>>, adj |-> <<>>, s2 |-> <<>>,
             filled |-> nounlist.filled]
       ELSE IF b.panic # NoPanic
       THEN [panic |-> b.panic, ret |-> <<>>, adj |-> a.ret, s2 |-> <<>>,
             filled |-> nounlist.filled]
       ELSE [panic |-> NoPanic,
             ret |-> IF self.language.german /\ is_noun(self.second_type)
                     THEN GermanNounList_get_adapted(nounlist, b.ret, a.ret)
                     ELSE Underscored(a.ret, b.ret),
             adj |-> a.ret, s2 |-> b.ret, filled |-> nounlist.filled]

\* setup: f1 and f2 are what read_lines finds at the first and the second
\* path.  names[1] of a split that gave one part is an out-of-bounds index,
\* reached after the adjectives have been filled from names[0].
CoupledWords_setup(self, c, f1, f2) ==
    CASE c.mode \in {"CoupledWordsNouns", "CoupledWordsNames"} ->
            [panic |-> NoPanic,
             self |-> [self EXCEPT
                         !.adjectives = RandomWord_fill(@, <<>>, f1),
                         !.type_list = RandomWord_fill(@, <<>>, f2)],
             reads |-> <<[path |-> FillPath(self.adjectives, <<>>), file |-> f1],
                         [path |-> FillPath(self.type_list, <<>>), file |-> f2]>>]
      [] c.mode = "CoupledWordsListFiles" ->
            LET names == Split(c.next, ":") IN
            IF Len(names) < 2
            THEN [panic |-> IndexOutOfBounds,
                  self |-> [self EXCEPT
                              !.adjectives = RandomWord_fill(@, names[1], f1)],
                  reads |-> <<[path |-> FillPath(self.adjectives, names[1]),
                               file |-> f1]>>]
            ELSE [panic |-> NoPanic,
                  self |-> [self EXCEPT
                              !.adjectives = RandomWord_fill(@, names[1], f1),
                              !.type_list = RandomWord_fill(@, names[2], f2)],
                  reads |-> <<[path |-> FillPath(self.adjectives, names[1]),
                               file |-> f1],
                              [path |-> FillPath(self.type_list, names[2]),
                               file |-> f2]>>]
      [] OTHER -> [panic |-> NoPanic, self |-> self, reads |-> <<>>]

----------------------------------------------------------------------------
(* The generator selector, the trait dispatch and Config.                  *)

StringerLength == 16

DefaultAmount == 16

DefaultLength == 12

StringerAlphabet == <<"a", "b", "c">>

\* Faulty variant of stringer: the letter generator takes Config.length.
stringer_conf_length(c) ==
    CASE c.mode = "RandomLetters" -> LettterSequence_new(StringerAlphabet, c.length)
      [] c.mode \in {"RandomWord", "RandomWordFromListFile"} ->
            RandomWord_new("Nouns", Languages_from(c.next))
      [] c.mode = "CoupledWordsNouns" ->
            CoupledWords_new("Nouns", Languages_from(c.next))
      [] c.mode \in {"CoupledWordsNames", "CoupledWordsListFiles"} ->
            CoupledWords_new("Names", Languages_from(c.next))
      [] OTHER -> LettterSequence_new(StringerAlphabet, c.length)

stringer(c) ==
    CASE c.mode = "RandomLetters" ->
            LettterSequence_new(StringerAlphabet, StringerLength)
      [] c.mode = "RandomWord" -> RandomWord_new("Nouns", Languages_from(c.next))
      [] c.mode = "RandomWordFromListFile" ->
            RandomWord_new("Nouns", Languages_from(c.next))
      [] c.mode = "CoupledWordsNouns" ->
            CoupledWords_new("Nouns", Languages_from(c.next))
      [] c.mode = "CoupledWordsNames" ->
            CoupledWords_new("Names", Languages_from(c.next))
      [] c.mode = "CoupledWordsListFiles" ->
            CoupledWords_new("Names", Languages_from(c.next))
      [] OTHER -> LettterSequence_new(StringerAlphabet, StringerLength)

\* StringGenerator::setup, dispatched on the variant.
Generator_setup(self, c, f1, f2) ==
    CASE self.kind = "LettterSequence" ->
            LET r == LettterSequence_setup(self, c, f1) IN
            [panic |-> r.panic, self |-> r.self,
             reads |-> IF c.mode = "RandomLettersFromAlphabetFile"
                       THEN <<[path |-> c.next, file |-> f1]>> ELSE <<>>]
      [] self.kind = "RandomWord" ->
            [panic |-> NoPanic, self |-> RandomWord_setup(self, c, f1),
             reads |-> <<[path |-> RandomWord_setup_path(self, c), file |-> f1]>>]
      [] OTHER -> CoupledWords_setup(self, c, f1, f2)

\* StringGenerator::get, dispatched on the variant; `run` is what the wheel
\* yields, v1 and v2 what the scalar RNG yields.
Generator_get(self, run, v1, v2) ==
    CASE self.kind = "LettterSequence" ->
            LET r == LettterSequence_get(self, run) IN
            [panic |-> r.panic, self |-> r.self, ret |-> r.ret,
             draw |-> [run |-> run, alphabet |-> self.alphabet, adj |-> <<>>,
                       s2 |-> <<>>, filled |-> FALSE]]
      [] self.kind = "RandomWord" ->
            LET r == RandomWord_get(self, v1) IN
            [panic |-> r.panic, self |-> self, ret |-> r.ret,
             draw |-> [run |-> <<v1>>, alphabet |-> <<>>, adj |-> <<>>,
                       s2 |-> <<>>, filled |-> FALSE]]
      [] OTHER ->
            LET r == CoupledWords_get(self, v1, v2) IN
            [panic |-> r.panic, self |-> self, ret |-> r.ret,
             draw |-> [run |-> <<v1, v2>>, alphabet |-> <<>>, adj |-> r.adj,
                       s2 |-> r.s2, filled |-> r.filled]]

\* Config::new: args[0] is the program name, so the Rust args[k] is args[k + 1].
Config_new(args) ==
    LET amount == IF Len(args) > 1 THEN ParseU32(args[2])
                  ELSE [ok |-> TRUE, value |-> DefaultAmount]
        length == IF Len(args) > 2 THEN ParseU32(args[3])
                  ELSE [ok |-> TRUE, value |-> DefaultLength]
    IN IF ~amount.ok \/ ~length.ok
       THEN [panic |-> NumberMustBe, conf |-> <<>>]
       ELSE [panic |-> NoPanic,
             conf |-> [mode |-> IF Len(args) > 3 THEN Modes_from(args[4])
                                ELSE "RandomLetters",
                       length |-> length.value,
                       amount |-> amount.value,
                       write_to_file |-> IF Len(args) > 5 THEN args[6] = <<"1">>
                                         ELSE FALSE,
                       next |-> IF Len(args) > 4 THEN args[5] ELSE <<>>]]

----------------------------------------------------------------------------
(* The environment: command lines and files.                               *)

NoFile == [exists |-> FALSE, bytes |-> <<>>]

FileOf(bytes) == [exists |-> TRUE, bytes |-> bytes]

EmptyFile == FileOf(<<>>)

\* "foo, bar ,, baz\n"
SpecLineFile ==
    FileOf(<<"f", "o", "o", ",", " ", "b", "a", "r", " ", ",", ",", " ",
             "b", "a", "z", "\n">>)

\* "foo, ,bar\n"
BlankTokenFile == FileOf(<<"f", "o", "o", ",", " ", ",", "b", "a", "r", "\n">>)

\* "Hof\r\n<not UTF-8>\nEi": an unreadable line, and no final terminator
GermanWordsFile ==
    FileOf(<<"H", "o", "f", "\r", "\n", BadByte, "\n", "E", "i">>)

Files == {NoFile, EmptyFile, SpecLineFile, BlankTokenFile, GermanWordsFile}

OldOutput == FileOf(<<"o", "l", "d", "\n">>)

InitialOutputs == {NoFile, OldOutput}

ArgAmounts == {ToDecimal(n) : n \in 0..MaxAmount} \cup {<<"x">>}

ArgLengths == {<<"+", "2", "0">>, <<"-", "1">>}

ArgModes == Modes \cup {"unknown"}

ArgNexts == {<<>>, <<"d", "e">>, <<"p", ":", "q">>}

ArgFlags == {<<"1">>, <<"0">>}

FullArgs ==
    {<<<<"strgen">>, a, l, m, n, f>> :
        a \in ArgAmounts, l \in ArgLengths, m \in ArgModes, n \in ArgNexts,
        f \in ArgFlags}

ArgLists == {SubSeq(full, 1, n) : full \in FullArgs, n \in 1..6}

NoConfig ==
    [mode |-> "none", length |-> 0, amount |-> 0, write_to_file |-> FALSE,
     next |-> <<>>]

NoGenerator == [kind |-> "None"]

NoDraw ==
    [run |-> <<>>, alphabet |-> <<>>, adj |-> <<>>, s2 |-> <<>>, filled |-> FALSE]

----------------------------------------------------------------------------
(* The driver: Config::new, then run_generator step by step.               *)

Init ==
    /\ pc = "start"
    /\ conf = NoConfig
    /\ sg = NoGenerator
    /\ i = 0
    /\ output \in InitialOutputs
    /\ out0 = output
    /\ console = <<>>
    /\ panic = NoPanic
    /\ getCalls = 0
    /\ rets = <<>>
    /\ createCalls = 0
    /\ reads = <<>>
    /\ lastGet = NoDraw

\* Config::new(args).  The amount is capped by MaxAmount to keep the run finite
\* in the model.
ConfigNew ==
    /\ pc = "start"
    /\ \E args \in ArgLists :
          LET r == Config_new(args) IN
          IF r.panic # NoPanic
          THEN /\ pc' = "config_panic"
               /\ panic' = r.panic
               /\ conf' = conf
          ELSE /\ r.conf.amount <= MaxAmount
               /\ pc' = "configured"
               /\ panic' = panic
               /\ conf' = r.conf
    /\ UNCHANGED <<sg, i, output, console, out0, getCalls, rets, createCalls,
                   reads, lastGet>>

\* let mut sg = stringer(conf.clone());
RunStringer ==
    /\ pc = "configured"
    /\ sg' = stringer(conf)
    /\ pc' = "built"
    /\ UNCHANGED <<conf, i, output, console, panic, out0, getCalls, rets,
                   createCalls, reads, lastGet>>

\* What the file system can answer: nothing is readable at the empty path, and
\* one path names one file.
ConsistentReads(rs) ==
    /\ \A k \in 1..Len(rs) : rs[k].path = <<>> => ~rs[k].file.exists
    /\ \A j, k \in 1..Len(rs) : rs[j].path = rs[k].path => rs[j].file = rs[k].file

\* sg.setup(conf.clone());
RunSetup ==
    /\ pc = "built"
    /\ \E f1 \in Files, f2 \in Files :
          LET r == Generator_setup(sg, conf, f1, f2) IN
          /\ ConsistentReads(r.reads)
          /\ sg' = r.self
          /\ reads' = reads \o r.reads
          /\ panic' = r.panic
          /\ pc' = IF r.panic = NoPanic THEN "ready" ELSE "setup_panic"
    /\ UNCHANGED <<conf, i, output, console, out0, getCalls, rets, createCalls,
                   lastGet>>

\* Faulty variant of the creation: strings.textout is created only when
\* write_to_file is set.
RunCreate_only_when_writing ==
    /\ pc = "ready"
    /\ \E ok \in BOOLEAN :
          IF ~conf.write_to_file
          THEN /\ pc' = "loop"
               /\ i' = 0
               /\ UNCHANGED <<output, panic, createCalls>>
          ELSE /\ createCalls' = createCalls + 1
               /\ IF ok
                  THEN /\ output' = FileOf(<<>>)
                       /\ pc' = "loop"
                       /\ i' = 0
                       /\ panic' = panic
                  ELSE /\ pc' = "io_error"
                       /\ panic' = IoError
                       /\ UNCHANGED <<output, i>>
    /\ UNCHANGED <<conf, sg, console, out0, getCalls, rets, reads, lastGet>>

\* let mut output = File::create(OUTPUT_NAME)?;  and the start of the loop
RunCreate ==
    /\ pc = "ready"
    /\ createCalls' = createCalls + 1
    /\ \E ok \in BOOLEAN :
          IF ok
          THEN /\ output' = FileOf(<<>>)
               /\ pc' = "loop"
               /\ i' = 0
               /\ panic' = panic
          ELSE /\ pc' = "io_error"
               /\ panic' = IoError
               /\ UNCHANGED <<output, i>>
    /\ UNCHANGED <<conf, sg, console, out0, getCalls, rets, reads, lastGet>>

\* writeln!(output, "{}", strang)
FileRecord(strang) == strang \o <<"\n">>

\* Faulty variant of the console record: the tag is one-based.
ConsoleRecord_one_based(strang, idx) ==
    strang \o <<":">> \o ToDecimal(idx + 1) \o <<"\n">>

\* print!("{}:{}\n", strang, _i)
ConsoleRecord(strang, idx) == strang \o <<":">> \o ToDecimal(idx) \o <<"\n">>

\* One iteration of `for _i in 0..conf.amount`: get(), then the write.
RunLoopBody ==
    /\ pc = "loop"
    /\ i < conf.amount
    /\ getCalls' = getCalls + 1
    /\ \E run \in RNGWheel(IF sg.kind = "LettterSequence" THEN sg.length ELSE 0),
          v1 \in RngValues, v2 \in RngValues, wok \in BOOLEAN :
          LET r == Generator_get(sg, run, v1, v2) IN
          /\ lastGet' = r.draw
          /\ sg' = r.self
          /\ IF r.panic # NoPanic
             THEN /\ pc' = "get_panic"
                  /\ panic' = r.panic
                  /\ UNCHANGED <<i, output, console, rets>>
             ELSE /\ rets' = Append(rets, r.ret)
                  /\ IF conf.write_to_file
                     THEN IF wok
                          THEN /\ output' = FileOf(output.bytes \o FileRecord(r.ret))
                               /\ i' = i + 1
                               /\ UNCHANGED <<pc, panic, console>>
                          ELSE /\ pc' = "io_error"
                               /\ panic' = IoError
                               /\ UNCHANGED <<i, output, console>>
                     ELSE /\ console' = console \o ConsoleRecord(r.ret, i)
                          /\ i' = i + 1
                          /\ UNCHANGED <<pc, panic, output>>
    /\ UNCHANGED <<conf, out0, createCalls, reads>>

\* The loop is over: return Ok(()).
RunLoopExit ==
    /\ pc = "loop"
    /\ i >= conf.amount
    /\ pc' = "done"
    /\ UNCHANGED <<conf, sg, i, output, console, panic, out0, getCalls, rets,
                   createCalls, reads, lastGet>>

Next ==
    \/ ConfigNew
    \/ RunStringer
    \/ RunSetup
    \/ RunCreate
    \/ RunLoopBody
    \/ RunLoopExit

Spec == Init /\ [][Next]_vars

----------------------------------------------------------------------------
(* A stand-alone LettterSequence: new(s, length), then get() and           *)
(* set_alphabet() in any order.                                            *)

UnitAlphabets == {<<>>, <<"a">>, <<"a", "b">>, <<"x", "y", "z">>}

LettersInit ==
    /\ pc = "unit"
    /\ conf = NoConfig
    /\ sg \in {LettterSequence_new(s, length) :
                  s \in UnitAlphabets, length \in 0..MaxLen}
    /\ i = 0
    /\ output = NoFile
    /\ out0 = NoFile
    /\ console = <<>>
    /\ panic = NoPanic
    /\ getCalls = 0
    /\ rets = <<>>
    /\ createCalls = 0
    /\ reads = <<>>
    /\ lastGet = NoDraw

LettersGet ==
    /\ pc = "unit"
    /\ getCalls < MaxUnitCalls
    /\ getCalls' = getCalls + 1
    /\ \E run \in RNGWheel(sg.length) :
          LET r == Generator_get(sg, run, 0, 0) IN
          /\ lastGet' = r.draw
          /\ sg' = r.self
          /\ IF r.panic # NoPanic
             THEN /\ pc' = "get_panic"
                  /\ panic' = r.panic
                  /\ rets' = rets
             ELSE /\ rets' = Append(rets, r.ret)
                  /\ UNCHANGED <<pc, panic>>
    /\ UNCHANGED <<conf, i, output, console, out0, createCalls, reads>>

LettersSetAlphabet ==
    /\ pc = "unit"
    /\ \E s \in UnitAlphabets : sg' = set_alphabet(sg, s)
    /\ UNCHANGED <<pc, conf, i, output, console, panic, out0, getCalls, rets,
                   createCalls, reads, lastGet>>

LettersNext == LettersGet \/ LettersSetAlphabet

SpecLetters == LettersInit /\ [][LettersNext]_vars

----------------------------------------------------------------------------
(* Properties.                                                             *)

BeforeSetup == {"start", "configured", "built", "config_panic"}

NoLineBreak(str) == "\n" \notin Elems(str)

NonEmptyString(str) == str # <<>>

\* What the k-th record on the console must be: "{string}:{k-1}\n".
TaggedLine(k) == rets[k] \o <<":">> \o ToDecimal(k - 1)

\* C1, as stated: a run that returns has called get() exactly `amount` times
\* and the output (the file when write_to_file, else the console) consists of
\* exactly `amount` lines, the k-th being the k-th drawn string (tagged with
\* k-1 on the console).
C1_ExactlyAmountLines ==
    pc = "done" =>
        /\ getCalls = conf.amount
        /\ Len(rets) = conf.amount
        /\ IF conf.write_to_file
           THEN Lines(output.bytes) = rets
           ELSE Lines(console) = [k \in 1..Len(rets) |-> TaggedLine(k)]

\* C1, as amended: while the loop runs and when the run returns, get() has
\* been called once per iteration, and the output is the concatenation, in
\* draw order, of one record per draw: the string and "\n" in the file, or
\* "{string}:{i}\n" with i = 0, 1, ... on the console; a run that returns has
\* made exactly `amount` draws; and the records are exactly `amount` lines
\* whenever no drawn string contains a line break.
C1_OneRecordPerDraw ==
    /\ pc \in {"loop", "done"} =>
          /\ getCalls = i
          /\ Len(rets) = i
          /\ i <= conf.amount
          /\ IF conf.write_to_file
             THEN /\ output.bytes
                       = Flatten([k \in 1..Len(rets) |-> rets[k] \o <<"\n">>])
                  /\ console = <<>>
             ELSE /\ console
                       = Flatten([k \in 1..Len(rets) |-> TaggedLine(k) \o <<"\n">>])
                  /\ output.bytes = <<>>
    /\ pc = "done" =>
          /\ getCalls = conf.amount
          /\ (\A k \in 1..Len(rets) : NoLineBreak(rets[k])) =>
                IF conf.write_to_file
                THEN Lines(output.bytes) = rets
                ELSE Lines(console) = [k \in 1..Len(rets) |-> TaggedLine(k)]

C1_Witness ==
    /\ pc = "done"
    /\ conf.amount = 2
    /\ ~conf.write_to_file
    /\ Len(Lines(console)) = 2
    /\ rets[1] # rets[2]

\* C2: for a LettterSequence with a non-empty alphabet A and length L, every
\* get(), repeated ones included, returns without panic a string of exactly
\* L characters, the k-th being A[value_k mod |A|], hence a member of A.
C2_GetLengthAndMembership ==
    (getCalls > 0 /\ lastGet.alphabet # <<>>) =>
        /\ pc = "unit"
        /\ rets # <<>>
        /\ Len(Last(rets)) = sg.length
        /\ \A k \in 1..Len(Last(rets)) :
              /\ Last(rets)[k] \in Elems(lastGet.alphabet)
              /\ k <= Len(lastGet.run)
              /\ Last(rets)[k]
                    = lastGet.alphabet[(lastGet.run[k] % Len(lastGet.alphabet)) + 1]

C2_Witness ==
    /\ pc = "unit"
    /\ getCalls = 2
    /\ sg.length = 3
    /\ Len(lastGet.alphabet) = 3
    /\ Len(rets[1]) = 3
    /\ Len(rets[2]) = 3
    /\ rets[1] # rets[2]

\* C3: a draw on a non-empty list never fails and returns W[value mod |W|],
\* with 0 <= value mod |W| < |W|; every string drawn is an element of W.
C3_DrawWithinList ==
    /\ (sg.kind = "RandomWord" /\ sg.list # <<>>) =>
          /\ pc # "get_panic"
          /\ \A k \in 1..Len(rets) : rets[k] \in Elems(sg.list)
          /\ getCalls > 0 =>
                LET index == lastGet.run[1] % Len(sg.list) IN
                /\ 0 <= index /\ index < Len(sg.list)
                /\ Last(rets) = sg.list[index + 1]
    /\ (/\ sg.kind = "CoupledWords"
        /\ sg.adjectives.list # <<>>
        /\ sg.type_list.list # <<>>) =>
          /\ pc # "get_panic"
          /\ getCalls > 0 =>
                /\ lastGet.adj
                      = sg.adjectives.list[
                            (lastGet.run[1] % Len(sg.adjectives.list)) + 1]
                /\ lastGet.s2
                      = sg.type_list.list[
                            (lastGet.run[2] % Len(sg.type_list.list)) + 1]

C3_Witness ==
    /\ sg.kind = "RandomWord"
    /\ Len(sg.list) = 2
    /\ getCalls = 2
    /\ lastGet.run = <<2>>
    /\ Last(rets) = sg.list[1]
    /\ pc = "done"

\* The words the claim expects of a file: every readable line split on
\* commas, every token trimmed, the empty results dropped.
C4_ExpectedWords(file) ==
    LET lines == read_lines(file).lines
        perLine == [k \in 1..Len(lines) |->
                      IF lines[k].ok
                      THEN LET toks == Split(lines[k].text, ",") IN
                           SelectSeq([t \in 1..Len(toks) |-> Trim(toks[t])],
                                     NonEmptyString)
                      ELSE <<>>]
    IN Flatten(perLine)

\* C4: after fill on a readable file the list is exactly the trimmed,
\* non-empty tokens of the file in order; no element is the empty string.
C4_FillTrimsThenDiscards ==
    (sg.kind = "RandomWord" /\ reads # <<>> /\ reads[1].file.exists) =>
        /\ sg.list = C4_ExpectedWords(reads[1].file)
        /\ \A k \in 1..Len(sg.list) : sg.list[k] # <<>>

\* C5: a missing list file leaves the list empty without failing setup, and
\* every get() on the empty list fails with a remainder by zero instead of
\* returning a string: the first draw is the first failure.
C5_MissingFileFailsAtFirstDraw ==
    /\ sg.kind = "RandomWord" => pc # "setup_panic"
    /\ (sg.kind = "RandomWord" /\ reads # <<>> /\ ~reads[1].file.exists) =>
          /\ sg.list = <<>>
          /\ rets = <<>>
          /\ getCalls <= 1
          /\ getCalls = 1 => (pc = "get_panic" /\ panic = RemainderByZero)
          /\ getCalls = 0 => panic \in {NoPanic, IoError}
    /\ (/\ sg.kind = "CoupledWords"
        /\ Len(reads) = 2
        /\ (~reads[1].file.exists \/ ~reads[2].file.exists)) =>
          /\ ~reads[1].file.exists => sg.adjectives.list = <<>>
          /\ ~reads[2].file.exists => sg.type_list.list = <<>>
          /\ pc # "setup_panic"
          /\ rets = <<>>
          /\ getCalls <= 1
          /\ getCalls = 1 => (pc = "get_panic" /\ panic = RemainderByZero)

C5_Witness ==
    /\ sg.kind = "RandomWord"
    /\ reads # <<>>
    /\ ~reads[1].file.exists
    /\ createCalls = 1
    /\ output = FileOf(<<>>)
    /\ pc = "get_panic"
    /\ panic = RemainderByZero

\* C6: in CoupledWordsListFiles mode a parameter with fewer than two parts
\* makes setup fail with a descriptive error, never with an out-of-bounds
\* index into the split result.
C6_MalformedParameterFailsDescriptively ==
    (/\ conf.mode = "CoupledWordsListFiles"
     /\ Len(Split(conf.next, ":")) < 2
     /\ pc \notin BeforeSetup) =>
        /\ pc = "setup_panic"
        /\ panic # IndexOutOfBounds

\* C7: CoupledWords::get() returns get_adapted(s2, adj) exactly when the
\* language is German and the second list holds Nouns, else adj_s2; adj and
\* s2 are drawn from the two lists; the noun table is filled exactly when the
\* language is German; a CoupledWordsListFiles run always gives adj_s2.
C7_AdaptOnlyGermanNouns ==
    (sg.kind = "CoupledWords" /\ getCalls > 0) =>
        /\ lastGet.filled = sg.language.german
        /\ pc # "get_panic" =>
              /\ lastGet.adj \in Elems(sg.adjectives.list)
              /\ lastGet.s2 \in Elems(sg.type_list.list)
              /\ Last(rets)
                    = IF sg.language.german /\ sg.second_type = "Nouns"
                      THEN GermanNounList_get_adapted(
                               GermanNounList_fill(GermanNounList_new),
                               lastGet.s2, lastGet.adj)
                      ELSE lastGet.adj \o <<"_">> \o lastGet.s2
              /\ conf.mode = "CoupledWordsListFiles" =>
                    Last(rets) = lastGet.adj \o <<"_">> \o lastGet.s2
              /\ (sg.language.german /\ sg.second_type = "Nouns")
                    <=> (/\ conf.mode = "CoupledWordsNouns"
                         /\ Languages_from(conf.next).german)

C7_Witness ==
    /\ sg.kind = "CoupledWords"
    /\ conf.mode = "CoupledWordsNouns"
    /\ sg.language.german
    /\ pc = "done"
    /\ getCalls > 0
    /\ lastGet.s2 = <<"E", "i">>
    /\ "_" \notin Elems(Last(rets))

\* C8: whenever the letter generator's get() can be called in a driver run,
\* its alphabet is non-empty, and get() never takes a remainder by zero.
C8_AlphabetNonEmptyAtGet ==
    (sg.kind = "LettterSequence" /\ pc \in {"ready", "loop", "get_panic"}) =>
        /\ Len(sg.alphabet) > 0
        /\ panic # RemainderByZero

\* C9: the letter generator of a driver run has length 16 from stringer on,
\* setup leaves the length (and the held string) as stringer set them, and
\* every string emitted in a letters mode has 16 characters whatever
\* Config.length is.
C9_LengthIgnoresConfig ==
    sg.kind = "LettterSequence" =>
        /\ sg.length = 16
        /\ pc \in {"built", "ready", "setup_panic"} => sg.held_string = <<>>
        /\ \A k \in 1..Len(rets) : Len(rets[k]) = 16

C9_Witness ==
    /\ sg.kind = "LettterSequence"
    /\ conf.length = 20
    /\ conf.mode = "RandomLettersFromAlphabetFile"
    /\ pc = "done"
    /\ Len(rets) = 2
    /\ Len(rets[2]) = 16

\* C10: File::create is called exactly once in a run whose setup completes,
\* after setup and before the first get(), whatever write_to_file is, and not
\* at all otherwise; once it has succeeded the file exists and stays empty in
\* console mode and when amount = 0; a run whose setup fails leaves the file
\* as it was.
C10_CreateOnceAfterSetup ==
    /\ createCalls <= 1
    /\ createCalls = 1 <=> pc \in {"loop", "done", "get_panic", "io_error"}
    /\ getCalls > 0 => createCalls = 1
    /\ createCalls = 0 => output = out0
    /\ pc = "setup_panic" => output = out0
    /\ pc \in {"loop", "done", "get_panic"} =>
          /\ output.exists
          /\ ~conf.write_to_file => output.bytes = <<>>
          /\ conf.amount = 0 => output.bytes = <<>>

C10_Witness ==
    /\ pc = "done"
    /\ ~conf.write_to_file
    /\ conf.amount = 2
    /\ getCalls = 2
    /\ out0 = OldOutput
    /\ output = FileOf(<<>>)

====
